---- MODULE Spec2Model ----
(***************************************************************************)
(* A model of lib/model/losses_tf.py: the loss metrics (MSSSIMLoss,        *)
(* GeneralizedLoss, LInfNorm, GradientLoss, GMSDLoss) as operators over    *)
(* small rank-4 tensors of extended rationals, and LossWrapper as a state  *)
(* machine whose evaluation loop is interleaved between callers.           *)
(***************************************************************************)
EXTENDS Integers, Sequences, FiniteSets, TLC

(***************************************************************************)
(* Numbers.  A tensor element stands for a float32.  A pair <<n, d>> with  *)
(* d > 0 is the rational n/d in lowest terms, tracked exactly.  The        *)
(* IEEE-754 specials have d = 0: <<1,0>> = +inf, <<-1,0>> = -inf,          *)
(* <<0,0>> = NaN.  A float whose value is not a rational this model tracks *)
(* (an irrational power or root, a magnitude beyond the integer range) is  *)
(* <<2, 0, lo, hi>>: a float that is not NaN and lies between the points   *)
(* lo and hi, both included.  A point is 0, or s * (e + PtOff) for the     *)
(* value s * 2^e with ExpMin <= e < ExpMax, or s * InfPt for the infinity  *)
(* of sign s; points are ordered as the values they stand for.  <<3,0>>    *)
(* is a float of which nothing is known (it may be NaN).                   *)
(***************************************************************************)
MaxMag == 2147483647

\* float32: a magnitude of 2^128 or more is infinite
ExpMax == 128

\* float32: the smallest positive magnitude is 2^-149
ExpMin == -149

PtOff == 150

InfPt == ExpMax + PtOff

NaN == <<0, 0>>

PosInf == <<1, 0>>

NegInf == <<-1, 0>>

AnyFloat == <<3, 0>>

Zero == <<0, 1>>

One == <<1, 1>>

IAbs(n) == IF n < 0 THEN -n ELSE n

ISign(n) == IF n < 0 THEN -1 ELSE IF n > 0 THEN 1 ELSE 0

IMin(a, b) == IF a <= b THEN a ELSE b

IMax(a, b) == IF a >= b THEN a ELSE b

RECURSIVE GCD(_, _)
GCD(a, b) == IF b = 0 THEN a ELSE GCD(b, a % b)

Rat(n, d) ==
  LET g == GCD(IAbs(n), d) IN <<n \div g, d \div g>>

Int2R(n) == <<n, 1>>

IsFinite(x) == x[2] > 0

IsNaN(x) == x = NaN

IsInf(x) == x = PosInf \/ x = NegInf

IsInexact(x) == x[2] = 0 /\ x[1] = 2

\* a float between the points lo and hi
Inexact(lo, hi) ==
  IF lo = hi /\ lo = 0 THEN Zero
  ELSE IF lo = hi /\ lo = InfPt THEN PosInf
  ELSE IF lo = hi /\ lo = -InfPt THEN NegInf
  ELSE <<2, 0, lo, hi>>

\* a * b fits the integer range
MulFits(a, b) == (a = 0) \/ (b = 0) \/ (IAbs(a) <= MaxMag \div IAbs(b))

RECURSIVE BitLen(_)
BitLen(k) == IF k = 0 THEN 0 ELSE 1 + BitLen(k \div 2)

\* the integer e with 2^e <= n/d < 2^(e+1), for n > 0 and d > 0
FloorLog2(n, d) ==
  LET k == BitLen(n) - BitLen(d)
  IN IF k >= 0
       THEN (IF n \div 2^k >= d THEN k ELSE k - 1)
       ELSE (IF n > (d - 1) \div 2^(-k) THEN k ELSE k - 1)

\* n/d (in lowest terms, positive) is a power of two
IsPow2(n, d) ==
  \/ d = 1 /\ n = 2^(BitLen(n) - 1)
  \/ n = 1 /\ d = 2^(BitLen(d) - 1)

\* the greatest point not above s * 2^e (the least point not below it is
\* -PtDown(-s, e)), as float32 rounds: overflow to the infinity, underflow
\* towards zero
PtDown(s, e) ==
  IF s = 0 THEN 0
  ELSE IF e >= ExpMax THEN s * InfPt
  ELSE IF e < ExpMin THEN (IF s > 0 THEN 0 ELSE -(ExpMin + PtOff))
  ELSE s * (e + PtOff)

\* the exponent of a point that is neither 0 nor an infinity
PExp(p) == IAbs(p) - PtOff

\* the points <<lo, hi>> around s * m, for 2^e <= m < 2^(e+1)
RatBnd(s, e, pow2) ==
  IF pow2 THEN <<s * (e + PtOff), s * (e + PtOff)>>
  ELSE IF s > 0 THEN <<e + PtOff, e + 1 + PtOff>>
  ELSE <<-(e + 1 + PtOff), -(e + PtOff)>>

\* the points <<lo, hi>> that bound a float that is neither NaN nor unknown
Bnd(x) ==
  IF IsInexact(x) THEN <<x[3], x[4]>>
  ELSE IF IsInf(x) THEN <<x[1] * InfPt, x[1] * InfPt>>
  ELSE IF x[1] = 0 THEN <<0, 0>>
  ELSE RatBnd(ISign(x[1]), FloorLog2(IAbs(x[1]), x[2]), IsPow2(IAbs(x[1]), x[2]))

RNeg(x) ==
  IF IsFinite(x) \/ IsInf(x) THEN <<-x[1], x[2]>>
  ELSE IF IsInexact(x) THEN Inexact(-x[4], -x[3])
  ELSE x

RAbs(x) ==
  IF IsFinite(x) \/ IsInf(x) THEN <<IAbs(x[1]), x[2]>>
  ELSE IF IsInexact(x)
    THEN (IF x[3] >= 0 THEN x
          ELSE IF x[4] <= 0 THEN Inexact(-x[4], -x[3])
          ELSE Inexact(0, IMax(-x[3], x[4])))
  ELSE x

\* a lower bound of the product of two points (an upper bound is the
\* opposite of a lower bound of the opposite product)
PMulDown(p, q) ==
  IF p = 0 \/ q = 0 THEN 0
  ELSE IF IAbs(p) = InfPt \/ IAbs(q) = InfPt THEN ISign(p) * ISign(q) * InfPt
  ELSE PtDown(ISign(p) * ISign(q), PExp(p) + PExp(q))

\* the product of two floats with the bounds a and b; 0 * inf is NaN, so
\* the product is unknown where one may be an infinity and the other zero
IvMul(a, b) ==
  IF \/ (a[1] = -InfPt \/ a[2] = InfPt) /\ b[1] <= 0 /\ b[2] >= 0
     \/ (b[1] = -InfPt \/ b[2] = InfPt) /\ a[1] <= 0 /\ a[2] >= 0
    THEN AnyFloat
  ELSE Inexact(IMin(IMin(PMulDown(a[1], b[1]), PMulDown(a[1], b[2])),
                    IMin(PMulDown(a[2], b[1]), PMulDown(a[2], b[2]))),
               IMax(IMax(-PMulDown(-a[1], b[1]), -PMulDown(-a[1], b[2])),
                    IMax(-PMulDown(-a[2], b[1]), -PMulDown(-a[2], b[2]))))

RMul(x, y) ==
  IF IsNaN(x) \/ IsNaN(y) THEN NaN
  ELSE IF x = AnyFloat \/ y = AnyFloat THEN AnyFloat
  ELSE IF IsInf(x) /\ ~IsInexact(y)
    THEN (IF y[1] = 0 THEN NaN ELSE <<x[1] * ISign(y[1]), 0>>)
  ELSE IF IsInf(y) /\ ~IsInexact(x)
    THEN (IF x[1] = 0 THEN NaN ELSE <<y[1] * ISign(x[1]), 0>>)
  ELSE IF (x = Zero /\ IsFinite(y)) \/ (y = Zero /\ IsFinite(x)) THEN Zero
  ELSE LET g1 == GCD(IAbs(x[1]), y[2])
           g2 == GCD(IAbs(y[1]), x[2])
           n1 == x[1] \div g1
           n2 == y[1] \div g2
           d1 == x[2] \div g2
           d2 == y[2] \div g1
       IN IF IsFinite(x) /\ IsFinite(y) /\ MulFits(n1, n2) /\ MulFits(d1, d2)
            THEN <<n1 * n2, d1 * d2>> ELSE IvMul(Bnd(x), Bnd(y))

\* a lower bound of the sum of two points (an upper bound is the opposite
\* of a lower bound of the sum of the opposites)
PAddDown(p, q) ==
  IF p = 0 THEN q
  ELSE IF q = 0 THEN p
  ELSE IF p = -InfPt \/ q = -InfPt THEN -InfPt
  ELSE IF p = InfPt \/ q = InfPt THEN InfPt
  ELSE IF p > 0 /\ q > 0
    THEN PtDown(1, IF PExp(p) = PExp(q) THEN PExp(p) + 1
                   ELSE IMax(PExp(p), PExp(q)))
  ELSE IF p < 0 /\ q < 0 THEN PtDown(-1, IMax(PExp(p), PExp(q)) + 1)
  ELSE IF PExp(IMax(p, q)) > PExp(IMin(p, q)) THEN PtDown(1, PExp(IMax(p, q)) - 1)
  ELSE IF PExp(IMax(p, q)) = PExp(IMin(p, q)) THEN 0
  ELSE PtDown(-1, PExp(IMin(p, q)))

\* the sum of two floats with the bounds a and b (inf - inf is NaN)
IvAdd(a, b) ==
  IF (a[2] = InfPt /\ b[1] = -InfPt) \/ (a[1] = -InfPt /\ b[2] = InfPt)
    THEN AnyFloat
  ELSE Inexact(PAddDown(a[1], b[1]), -PAddDown(-a[2], -b[2]))

RAdd(x, y) ==
  IF IsNaN(x) \/ IsNaN(y) THEN NaN
  ELSE IF x = AnyFloat \/ y = AnyFloat THEN AnyFloat
  ELSE IF IsInf(x) /\ IsInf(y) THEN (IF x = y THEN x ELSE NaN)
  ELSE IF IsInf(x) /\ IsFinite(y) THEN x
  ELSE IF IsInf(y) /\ IsFinite(x) THEN y
  ELSE LET g == GCD(x[2], y[2])
           a == y[2] \div g
           b == x[2] \div g
       IN IF IsFinite(x) /\ IsFinite(y)
             /\ MulFits(x[1], a) /\ MulFits(y[1], b) /\ MulFits(x[2], a)
             /\ IAbs(x[1] * a) <= MaxMag - IAbs(y[1] * b)
            THEN Rat(x[1] * a + y[1] * b, x[2] * a) ELSE IvAdd(Bnd(x), Bnd(y))

RSub(x, y) == RAdd(x, RNeg(y))

\* a lower bound of the quotient of two points, q not 0 (an upper bound is
\* the opposite of a lower bound of the opposite quotient)
PDivDown(p, q) ==
  IF p = 0 \/ IAbs(q) = InfPt THEN 0
  ELSE IF IAbs(p) = InfPt THEN ISign(p) * ISign(q) * InfPt
  ELSE PtDown(ISign(p) * ISign(q), PExp(p) - PExp(q))

\* the quotient of two floats with the bounds a and b.  A zero divisor is
\* +0 (every zero divisor in the source is); a divisor that may be zero,
\* and inf/inf, leave the quotient unknown
IvDiv(a, b) ==
  IF b = <<0, 0>>
    THEN (IF a[1] > 0 THEN PosInf ELSE IF a[2] < 0 THEN NegInf ELSE AnyFloat)
  ELSE IF \/ b[1] <= 0 /\ b[2] >= 0
          \/ (a[1] = -InfPt \/ a[2] = InfPt) /\ (b[1] = -InfPt \/ b[2] = InfPt)
    THEN AnyFloat
  ELSE Inexact(IMin(IMin(PDivDown(a[1], b[1]), PDivDown(a[1], b[2])),
                    IMin(PDivDown(a[2], b[1]), PDivDown(a[2], b[2]))),
               IMax(IMax(-PDivDown(-a[1], b[1]), -PDivDown(-a[1], b[2])),
                    IMax(-PDivDown(-a[2], b[1]), -PDivDown(-a[2], b[2]))))

\* IEEE division
RDiv(x, y) ==
  IF IsNaN(x) \/ IsNaN(y) THEN NaN
  ELSE IF x = AnyFloat \/ y = AnyFloat THEN AnyFloat
  ELSE IF x = Zero /\ y = Zero THEN NaN
  ELSE IF IsInf(x) /\ IsInf(y) THEN NaN
  ELSE IF IsFinite(x) /\ IsInf(y) THEN Zero
  ELSE IF IsFinite(y) /\ y # Zero THEN RMul(x, <<ISign(y[1]) * y[2], IAbs(y[1])>>)
  ELSE IvDiv(Bnd(x), Bnd(y))

RECURSIVE Mant(_, _, _, _, _, _)
Mant(r, den, k, acc, s, p) ==
  IF k = 0
    THEN (IF r > den - r \/ (r = den - r /\ acc % 2 = 1)
            THEN (IF acc + 1 = 2^23 THEN <<s * (p + 1), 0>> ELSE <<s * p, s * (acc + 1)>>)
          ELSE <<s * p, s * acc>>)
  ELSE Mant(IF r >= den - r THEN r - (den - r) ELSE r + r, den, k - 1,
            2 * acc + (IF r >= den - r THEN 1 ELSE 0), s, p)

F32(s, n, d, e) ==
  Mant(IF e >= 0 THEN n - d * 2^e ELSE n * 2^(-e - 1) - (d - n * 2^(-e - 1)),
       IF e >= 0 THEN d * 2^e ELSE d, 23, 0, s, e + PtOff)

\* the least and the greatest float32 x stands for, each as <<point, mantissa>>
Key(x) ==
  IF x = AnyFloat THEN << <<-InfPt, 0>>, <<InfPt, 0>> >>
  ELSE IF IsInexact(x) THEN << <<x[3], 0>>, <<x[4], 0>> >>
  ELSE IF IsInf(x) THEN << <<x[1] * InfPt, 0>>, <<x[1] * InfPt, 0>> >>
  ELSE IF x[1] = 0 THEN << <<0, 0>>, <<0, 0>> >>
  ELSE [i \in 1..2 |-> F32(ISign(x[1]), IAbs(x[1]), x[2], FloorLog2(IAbs(x[1]), x[2]))]

KLess(a, b) == a[1] < b[1] \/ (a[1] = b[1] /\ a[2] < b[2])

LessOutcomes(kx, ky, any) ==
  (IF KLess(kx[1], ky[2]) THEN {TRUE} ELSE {})
    \cup (IF any \/ ~KLess(kx[2], ky[1]) THEN {FALSE} ELSE {})

\* the outcomes of the float comparison x < y: one outcome for two floats
\* the model tracks, both where the bounds of an operand leave it open
RLess(x, y) ==
  IF IsNaN(x) \/ IsNaN(y) THEN {FALSE}
  ELSE LessOutcomes(Key(x), Key(y), x = AnyFloat \/ y = AnyFloat)

\* max of two floats as a max-reduction computes it (NaN propagates)
MaxOutcome(x, y, lt, kx, ky, bx, by) ==
  IF lt = {TRUE} THEN y
  ELSE IF lt = {FALSE} THEN x
  ELSE IF ~KLess(ky[1], kx[2]) THEN y
  ELSE Inexact(IMax(bx[1], by[1]), IMax(bx[2], by[2]))

RMax(x, y) ==
  IF IsNaN(x) \/ IsNaN(y) THEN NaN
  ELSE IF x = AnyFloat \/ y = AnyFloat THEN AnyFloat
  ELSE MaxOutcome(x, y, RLess(x, y), Key(x), Key(y), Bnd(x), Bnd(y))

RECURSIVE ISqrtIn(_, _, _)
ISqrtIn(n, lo, hi) ==
  IF lo >= hi THEN lo
  ELSE LET mid == (lo + hi + 1) \div 2
       IN IF mid <= n \div mid THEN ISqrtIn(n, mid, hi) ELSE ISqrtIn(n, lo, mid - 1)

ISqrt(n) == IF n = 0 THEN 0 ELSE ISqrtIn(n, 1, IMin(n, 46340))

IsSquare(n) == ISqrt(n) * ISqrt(n) = n

\* a lower bound (up = FALSE) or an upper bound (up = TRUE) of the point
\* p >= 0 to the power e, e not 0
PPow(p, e, up) ==
  IF p = 0 THEN (IF e[1] > 0 THEN 0 ELSE InfPt)
  ELSE IF p = InfPt THEN (IF e[1] > 0 THEN InfPt ELSE 0)
  ELSE IF up THEN -PtDown(-1, -((-(PExp(p) * e[1])) \div e[2]))
  ELSE PtDown(1, (PExp(p) * e[1]) \div e[2])

\* the power e, not an integer, of a float with the bounds a: NaN for a
\* negative finite base
IvPow(a, e) ==
  IF a[2] < 0 /\ a[1] > -InfPt THEN NaN
  ELSE IF a[1] < 0 THEN AnyFloat
  ELSE IF e[1] > 0 THEN Inexact(PPow(a[1], e, FALSE), PPow(a[2], e, TRUE))
  ELSE Inexact(PPow(a[2], e, FALSE), PPow(a[1], e, TRUE))

RSqrt(x) ==
  IF IsNaN(x) \/ x = NegInf THEN NaN
  ELSE IF x = AnyFloat THEN AnyFloat
  ELSE IF x = PosInf THEN x
  ELSE IF IsFinite(x) /\ x[1] >= 0 /\ IsSquare(x[1]) /\ IsSquare(x[2])
    THEN <<ISqrt(x[1]), ISqrt(x[2])>>
  ELSE IvPow(Bnd(x), <<1, 2>>)

RECURSIVE RPowInt(_, _)
RPowInt(x, k) == IF k = 0 THEN One ELSE RMul(x, RPowInt(x, k - 1))

\* p for a positive exponent k, 1/p for a negative one
PowInv(p, k) == IF k > 0 THEN p ELSE RDiv(One, p)

\* pow(x, e) for a rational exponent e, with the C/IEEE special cases
RPow(x, e) ==
  IF e = Zero \/ x = One THEN One
  ELSE IF IsNaN(x) THEN NaN
  ELSE IF x = AnyFloat THEN AnyFloat
  ELSE IF e[2] # 1 /\ x = Zero THEN (IF e[1] > 0 THEN Zero ELSE PosInf)
  ELSE IF e[2] # 1 /\ IsInf(x) THEN (IF e[1] > 0 THEN PosInf ELSE Zero)
  ELSE IF \/ e[2] = 1
          \/ e[2] = 2 /\ IsFinite(x) /\ x[1] > 0 /\ IsSquare(x[1]) /\ IsSquare(x[2])
    THEN PowInv(RPowInt(IF e[2] = 1 THEN x ELSE <<ISqrt(x[1]), ISqrt(x[2])>>,
                        IAbs(e[1])), e[1])
  ELSE IvPow(Bnd(x), e)

(***************************************************************************)
(* Tensors.  A tensor is [shape, at]: shape is the sequence of its         *)
(* dimensions (batch, height, width, channels for an image) and at maps    *)
(* every index tuple (1-based) to its element.  Axis arguments keep the    *)
(* source's 0-based numbering.                                             *)
(***************************************************************************)
RECURSIVE Idx(_)
Idx(shape) ==
  IF shape = <<>> THEN {<<>>}
  ELSE {<<h>> \o t : h \in 1..Head(shape), t \in Idx(Tail(shape))}

Tensor(shape, F(_)) == [shape |-> shape, at |-> [i \in Idx(shape) |-> F(i)]]

\* position of a Python slice bound in a dimension of extent n
PyBound(n, k) == IF k < 0 THEN IMax(n + k, 0) ELSE IMin(k, n)

\* t[..., start:stop, ...] on the given axis
Slice(t, axis, start, stop) ==
  LET n  == t.shape[axis + 1]
      lo == PyBound(n, start)
      hi == PyBound(n, stop)
  IN Tensor([t.shape EXCEPT ![axis + 1] = IMax(hi - lo, 0)],
            LAMBDA i : t.at[[i EXCEPT ![axis + 1] = i[axis + 1] + lo]])

\* t[..., start:, ...]
SliceFrom(t, axis, start) == Slice(t, axis, start, t.shape[axis + 1])

\* t[..., :stop, ...]
SliceTo(t, axis, stop) == Slice(t, axis, 0, stop)

\* numpy broadcasting of two shapes of equal rank (extent 1 stretches)
RECURSIVE BroadcastShape(_, _)
BroadcastShape(s1, s2) ==
  IF s1 = <<>> THEN <<>>
  ELSE <<IF Head(s1) = Head(s2) THEN Head(s1)
         ELSE IF Head(s1) = 1 THEN Head(s2) ELSE Head(s1)>>
       \o BroadcastShape(Tail(s1), Tail(s2))

\* the index of the operand of the given shape that index i of the
\* broadcast result reads
RECURSIVE BroadcastIdx(_, _)
BroadcastIdx(i, shape) ==
  IF shape = <<>> THEN <<>>
  ELSE <<IF Head(shape) = 1 THEN 1 ELSE Head(i)>> \o BroadcastIdx(Tail(i), Tail(shape))

Elementwise(Op(_, _), a, b) ==
  Tensor(BroadcastShape(a.shape, b.shape),
         LAMBDA i : Op(a.at[BroadcastIdx(i, a.shape)], b.at[BroadcastIdx(i, b.shape)]))

TAdd(a, b) == Elementwise(RAdd, a, b)

TSub(a, b) == Elementwise(RSub, a, b)

TMul(a, b) == Elementwise(RMul, a, b)

TDiv(a, b) == Elementwise(RDiv, a, b)

\* tensor (op) Python scalar
TMap(Op(_), t) == Tensor(t.shape, LAMBDA i : Op(t.at[i]))

TScale(t, r) == TMap(LAMBDA x : RMul(x, r), t)

TAddScalar(t, r) == TMap(LAMBDA x : RAdd(x, r), t)

RECURSIVE SumExtent(_, _)
SumExtent(ts, ax) ==
  IF ts = <<>> THEN 0 ELSE Head(ts).shape[ax] + SumExtent(Tail(ts), ax)

\* the piece of ts holding position p (1-based) of the joined axis, and
\* the position inside that piece
RECURSIVE Locate(_, _, _)
Locate(ts, ax, p) ==
  IF p <= Head(ts).shape[ax] THEN <<Head(ts), p>>
  ELSE Locate(Tail(ts), ax, p - Head(ts).shape[ax])

\* K.concatenate(ts, axis)
Concatenate(ts, axis) ==
  Tensor([ts[1].shape EXCEPT ![axis + 1] = SumExtent(ts, axis + 1)],
         LAMBDA i : Locate(ts, axis + 1, i[axis + 1])[1].at[
                      [i EXCEPT ![axis + 1] = Locate(ts, axis + 1, i[axis + 1])[2]]])

\* the index of t that index i of a reduction over axes reads first: i
\* itself when the reduced axes are kept, else i with a 1 put in at each of
\* them (k is the axis of t being filled in)
RECURSIVE Expand(_, _, _, _)
Expand(i, axes, k, rank) ==
  IF k > rank THEN <<>>
  ELSE IF k \in axes THEN <<1>> \o Expand(i, axes, k + 1, rank)
  ELSE <<Head(i)>> \o Expand(Tail(i), axes, k + 1, rank)

BaseIdx(t, i, axes, keep) == IF keep THEN i ELSE Expand(i, axes, 1, Len(t.shape))

Extent(t, axes) == IF axes = <<>> THEN 0 ELSE t.shape[Head(axes)]

\* the sum ("sum") or maximum ("max") of the elements of t whose index is i
\* outside axes, ranges over lo..hi on the first of axes and over the whole
\* extent on the others
RECURSIVE Fold(_, _, _, _, _, _)
Fold(kind, t, i, axes, lo, hi) ==
  IF axes = <<>> THEN t.at[i]
  ELSE IF lo > hi THEN (IF kind = "sum" THEN Zero ELSE NegInf)
  ELSE IF lo = hi
    THEN Fold(kind, t, [i EXCEPT ![Head(axes)] = lo], Tail(axes), 1, Extent(t, Tail(axes)))
  ELSE IF kind = "sum"
    THEN RAdd(Fold(kind, t, i, axes, lo, (lo + hi) \div 2),
              Fold(kind, t, i, axes, ((lo + hi) \div 2) + 1, hi))
  ELSE RMax(Fold(kind, t, i, axes, lo, (lo + hi) \div 2),
            Fold(kind, t, i, axes, ((lo + hi) \div 2) + 1, hi))

RECURSIVE AxisSeq(_, _, _)
AxisSeq(axes, k, rank) ==
  IF k > rank THEN <<>>
  ELSE (IF k \in axes THEN <<k>> ELSE <<>>) \o AxisSeq(axes, k + 1, rank)

\* number of elements a reduction over axes (1-based set) combines
RECURSIVE Numel(_, _, _)
Numel(shape, axes, k) ==
  IF shape = <<>> THEN 1
  ELSE (IF k \in axes THEN Head(shape) ELSE 1) * Numel(Tail(shape), axes, k + 1)

RECURSIVE DropAxes(_, _, _)
DropAxes(shape, axes, k) ==
  IF shape = <<>> THEN <<>>
  ELSE (IF k \in axes THEN <<>> ELSE <<Head(shape)>>) \o DropAxes(Tail(shape), axes, k + 1)

RECURSIVE KeepAxes(_, _, _)
KeepAxes(shape, axes, k) ==
  IF shape = <<>> THEN <<>>
  ELSE <<IF k \in axes THEN 1 ELSE Head(shape)>> \o KeepAxes(Tail(shape), axes, k + 1)

\* shape of a reduction over axes (1-based set)
ReducedShape(shape, axes, keep) ==
  IF keep THEN KeepAxes(shape, axes, 1) ELSE DropAxes(shape, axes, 1)

\* one entry of a reduction of t over axes
Reduce(kind, t, i, axes, keep) ==
  Fold(kind, t, BaseIdx(t, i, axes, keep), AxisSeq(axes, 1, Len(t.shape)),
       1, Extent(t, AxisSeq(axes, 1, Len(t.shape))))

\* K.mean(t, axis=axes, keepdims=keep): sum / count, 0/0 = NaN when empty
Mean(t, axes, keep) ==
  Tensor(ReducedShape(t.shape, axes, keep),
         LAMBDA i : RDiv(Reduce("sum", t, i, axes, keep), Int2R(Numel(t.shape, axes, 1))))

\* K.max(t, axis=axes, keepdims=keep)
Max(t, axes, keep) ==
  Tensor(ReducedShape(t.shape, axes, keep),
         LAMBDA i : Reduce("max", t, i, axes, keep))

\* K.std(t, axis=axes, keepdims=keep) = sqrt(mean(square(t - mean(t))))
Std(t, axes, keep) ==
  LET devs == TSub(t, Mean(t, axes, TRUE))
  IN TMap(RSqrt, Mean(TMul(devs, devs), axes, keep))

\* K.squeeze(t, axis=-1)
SqueezeLast(t) ==
  LET r == Len(t.shape)
  IN Tensor(SubSeq(t.shape, 1, r - 1), LAMBDA i : t.at[i \o <<1>>])

\* a tensor of rank 0
Scalar(x) == Tensor(<<>>, LAMBDA i : x)

\* the reduction of tf.keras.losses.Loss.__call__ for the default
\* reduction (sum over batch size): the sum of every element over their
\* number, as a number; the division is divide_no_nan, 0 for no element
ReduceAuto(t) ==
  IF Numel(t.shape, 1..Len(t.shape), 1) = 0 THEN Zero
  ELSE Mean(t, 1..Len(t.shape), FALSE).at[<<>>]

(***************************************************************************)
(* MSSSIMLoss                                                              *)
(***************************************************************************)
\* MSSSIMLoss.call: 1. - ms_ssim, on the tensor the primitive returns
MSSSIMLoss_call(ms_ssim) == TMap(LAMBDA x : RSub(One, x), ms_ssim)

\* DSSIMObjective.call: (1. - ssim) / 2.0, on the tensor the primitive returns
DSSIMObjective_call(ssim) == TMap(LAMBDA x : RDiv(RSub(One, x), Int2R(2)), ssim)

(***************************************************************************)
(* GeneralizedLoss and LInfNorm                                            *)
(***************************************************************************)
\* GeneralizedLoss.call without the "- 1." of the inner term
GeneralizedLoss_call_no_minus(alpha, beta, y_true, y_pred) ==
  LET diff   == TSub(y_pred, y_true)
      absa   == RAbs(RSub(Int2R(2), alpha))
      second == TMap(LAMBDA d :
                       RPow(RAdd(RDiv(RPow(RDiv(d, beta), Int2R(2)), absa), One),
                            RDiv(alpha, Int2R(2))),
                     diff)
      loss   == TScale(second, RDiv(absa, alpha))
  IN TScale(Mean(loss, {Len(loss.shape)}, FALSE), beta)

\* GeneralizedLoss.call with self.alpha = alpha, self.beta = beta
GeneralizedLoss_call(alpha, beta, y_true, y_pred) ==
  LET diff   == TSub(y_pred, y_true)
      absa   == RAbs(RSub(Int2R(2), alpha))
      second == TMap(LAMBDA d :
                       RSub(RPow(RAdd(RDiv(RPow(RDiv(d, beta), Int2R(2)), absa), One),
                                 RDiv(alpha, Int2R(2))),
                            One),
                     diff)
      loss   == TScale(second, RDiv(absa, alpha))
  IN TScale(Mean(loss, {Len(loss.shape)}, FALSE), beta)

\* LInfNorm.call taking the maximum of the signed error
LInfNorm_call_no_abs(y_true, y_pred) ==
  LET diff     == TSub(y_true, y_pred)
      max_loss == Max(diff, {2, 3}, TRUE)
  IN Mean(max_loss, {Len(max_loss.shape)}, FALSE)

\* LInfNorm.call
LInfNorm_call(y_true, y_pred) ==
  LET diff     == TMap(RAbs, TSub(y_true, y_pred))
      max_loss == Max(diff, {2, 3}, TRUE)
  IN Mean(max_loss, {Len(max_loss.shape)}, FALSE)

(***************************************************************************)
(* GradientLoss                                                            *)
(***************************************************************************)
Half == <<1, 2>>

Quarter == <<1, 4>>

\* GradientLoss._diff_x
diff_x(img) ==
  LET x_left  == TSub(Slice(img, 2, 1, 2), Slice(img, 2, 0, 1))
      x_inner == TSub(SliceFrom(img, 2, 2), SliceTo(img, 2, -2))
      x_right == TSub(SliceFrom(img, 2, -1), Slice(img, 2, -2, -1))
      x_out   == Concatenate(<<x_left, x_inner, x_right>>, 2)
  IN TScale(x_out, Half)

\* GradientLoss._diff_y
diff_y(img) ==
  LET y_top   == TSub(Slice(img, 1, 1, 2), Slice(img, 1, 0, 1))
      y_inner == TSub(SliceFrom(img, 1, 2), SliceTo(img, 1, -2))
      y_bot   == TSub(SliceFrom(img, 1, -1), Slice(img, 1, -2, -1))
      y_out   == Concatenate(<<y_top, y_inner, y_bot>>, 1)
  IN TScale(y_out, Half)

\* GradientLoss._diff_xx
diff_xx(img) ==
  LET x_left  == TAdd(Slice(img, 2, 1, 2), Slice(img, 2, 0, 1))
      x_inner == TAdd(SliceFrom(img, 2, 2), SliceTo(img, 2, -2))
      x_right == TAdd(SliceFrom(img, 2, -1), Slice(img, 2, -2, -1))
      x_out   == Concatenate(<<x_left, x_inner, x_right>>, 2)
  IN TSub(x_out, TScale(img, Int2R(2)))

\* GradientLoss._diff_yy
diff_yy(img) ==
  LET y_top   == TAdd(Slice(img, 1, 1, 2), Slice(img, 1, 0, 1))
      y_inner == TAdd(SliceFrom(img, 1, 2), SliceTo(img, 1, -2))
      y_bot   == TAdd(SliceFrom(img, 1, -1), Slice(img, 1, -2, -1))
      y_out   == Concatenate(<<y_top, y_inner, y_bot>>, 1)
  IN TSub(y_out, TScale(img, Int2R(2)))

\* _diff_xy with the pieces under "xout1" kept for xy_out1 and the pieces
\* under "Xout2" used for xy_out2 only
diff_xy_two_sets(img) ==
  LET top_left1 == TAdd(Slice(Slice(img, 1, 1, 2), 2, 1, 2), Slice(Slice(img, 1, 0, 1), 2, 0, 1))
      inner_left1 == TAdd(Slice(SliceFrom(img, 1, 2), 2, 1, 2), Slice(SliceTo(img, 1, -2), 2, 0, 1))
      bot_left1 == TAdd(Slice(SliceFrom(img, 1, -1), 2, 1, 2), Slice(Slice(img, 1, -2, -1), 2, 0, 1))
      xy_left1 == Concatenate(<<top_left1, inner_left1, bot_left1>>, 1)
      top_mid1 == TAdd(SliceFrom(Slice(img, 1, 1, 2), 2, 2), SliceTo(Slice(img, 1, 0, 1), 2, -2))
      inner_mid1 == TAdd(SliceFrom(SliceFrom(img, 1, 2), 2, 2), SliceTo(SliceTo(img, 1, -2), 2, -2))
      bot_mid1 == TAdd(SliceFrom(SliceFrom(img, 1, -1), 2, 2), SliceTo(Slice(img, 1, -2, -1), 2, -2))
      xy_mid1 == Concatenate(<<top_mid1, inner_mid1, bot_mid1>>, 1)
      top_right1 == TAdd(SliceFrom(Slice(img, 1, 1, 2), 2, -1), Slice(Slice(img, 1, 0, 1), 2, -2, -1))
      inner_right1 == TAdd(SliceFrom(SliceFrom(img, 1, 2), 2, -1), Slice(SliceTo(img, 1, -2), 2, -2, -1))
      bot_right1 == TAdd(SliceFrom(SliceFrom(img, 1, -1), 2, -1), Slice(Slice(img, 1, -2, -1), 2, -2, -1))
      xy_right1 == Concatenate(<<top_right1, inner_right1, bot_right1>>, 1)
      top_left2 == TAdd(Slice(Slice(img, 1, 0, 1), 2, 1, 2), Slice(Slice(img, 1, 1, 2), 2, 0, 1))
      inner_left2 == TAdd(Slice(SliceTo(img, 1, -2), 2, 1, 2), Slice(SliceFrom(img, 1, 2), 2, 0, 1))
      bot_left2 == TAdd(Slice(Slice(img, 1, -2, -1), 2, 1, 2), Slice(SliceFrom(img, 1, -1), 2, 0, 1))
      xy_left2 == Concatenate(<<top_left2, inner_left2, bot_left2>>, 1)
      top_mid2 == TAdd(SliceFrom(Slice(img, 1, 0, 1), 2, 2), SliceTo(Slice(img, 1, 1, 2), 2, -2))
      inner_mid2 == TAdd(SliceFrom(SliceTo(img, 1, -2), 2, 2), SliceTo(SliceFrom(img, 1, 2), 2, -2))
      bot_mid2 == TAdd(SliceFrom(Slice(img, 1, -2, -1), 2, 2), SliceTo(SliceFrom(img, 1, -1), 2, -2))
      xy_mid2 == Concatenate(<<top_mid2, inner_mid2, bot_mid2>>, 1)
      top_right2 == TAdd(SliceFrom(Slice(img, 1, 0, 1), 2, -1), Slice(Slice(img, 1, 1, 2), 2, -2, -1))
      inner_right2 == TAdd(SliceFrom(SliceTo(img, 1, -2), 2, -1), Slice(SliceFrom(img, 1, 2), 2, -2, -1))
      bot_right2 == TAdd(SliceFrom(Slice(img, 1, -2, -1), 2, -1), Slice(SliceFrom(img, 1, -1), 2, -2, -1))
      xy_right2 == Concatenate(<<top_right2, inner_right2, bot_right2>>, 1)
      xy_out1 == Concatenate(<<xy_left1, xy_mid1, xy_right1>>, 2)
      xy_out2 == Concatenate(<<xy_left2, xy_mid2, xy_right2>>, 2)
  IN TScale(TSub(xy_out1, xy_out2), Quarter)

\* GradientLoss._diff_xy; the pieces named under "xout1" in the source are
\* rebound under "Xout2" before either xy_out is built, so both xy_out1 and
\* xy_out2 are joined from the second set
diff_xy(img) ==
  LET top_left    == TAdd(Slice(Slice(img, 1, 0, 1), 2, 1, 2), Slice(Slice(img, 1, 1, 2), 2, 0, 1))
      inner_left  == TAdd(Slice(SliceTo(img, 1, -2), 2, 1, 2), Slice(SliceFrom(img, 1, 2), 2, 0, 1))
      bot_left    == TAdd(Slice(Slice(img, 1, -2, -1), 2, 1, 2), Slice(SliceFrom(img, 1, -1), 2, 0, 1))
      xy_left     == Concatenate(<<top_left, inner_left, bot_left>>, 1)
      top_mid     == TAdd(SliceFrom(Slice(img, 1, 0, 1), 2, 2), SliceTo(Slice(img, 1, 1, 2), 2, -2))
      mid_mid     == TAdd(SliceFrom(SliceTo(img, 1, -2), 2, 2), SliceTo(SliceFrom(img, 1, 2), 2, -2))
      bot_mid     == TAdd(SliceFrom(Slice(img, 1, -2, -1), 2, 2), SliceTo(SliceFrom(img, 1, -1), 2, -2))
      xy_mid      == Concatenate(<<top_mid, mid_mid, bot_mid>>, 1)
      top_right   == TAdd(SliceFrom(Slice(img, 1, 0, 1), 2, -1), Slice(Slice(img, 1, 1, 2), 2, -2, -1))
      inner_right == TAdd(SliceFrom(SliceTo(img, 1, -2), 2, -1), Slice(SliceFrom(img, 1, 2), 2, -2, -1))
      bot_right   == TAdd(SliceFrom(Slice(img, 1, -2, -1), 2, -1), Slice(SliceFrom(img, 1, -1), 2, -2, -1))
      xy_right    == Concatenate(<<top_right, inner_right, bot_right>>, 1)
      xy_out1     == Concatenate(<<xy_left, xy_mid, xy_right>>, 2)
      xy_out2     == Concatenate(<<xy_left, xy_mid, xy_right>>, 2)
  IN TScale(TSub(xy_out1, xy_out2), Quarter)

\* GradientLoss.__init__: GeneralizedLoss(alpha=1.9999), default beta
GradAlpha == <<19999, 10000>>

DefaultBeta == <<1, 255>>

\* self.generalized_loss(a, b): Loss.__call__ reduces call()'s output
generalized_loss(a, b) == ReduceAuto(GeneralizedLoss_call(GradAlpha, DefaultBeta, a, b))

tv_weight == <<1, 1>>

tv2_weight == <<1, 1>>

\* GradientLoss.call
GradientLoss_call(y_true, y_pred) ==
  LET loss1 == RAdd(Zero,
                 RMul(tv_weight,
                      RAdd(generalized_loss(diff_x(y_true), diff_x(y_pred)),
                           generalized_loss(diff_y(y_true), diff_y(y_pred)))))
      loss2 == RAdd(loss1,
                 RMul(tv2_weight,
                      RAdd(RAdd(generalized_loss(diff_xx(y_true), diff_xx(y_pred)),
                                generalized_loss(diff_yy(y_true), diff_yy(y_pred))),
                           RMul(generalized_loss(diff_xy(y_true), diff_xy(y_pred)),
                                Int2R(2)))))
  IN RDiv(loss2, RAdd(tv_weight, tv2_weight))

(***************************************************************************)
(* GMSDLoss                                                                *)
(***************************************************************************)
\* the 5x5x1x2 kernel of _scharr_edges, in units of 1/10000:
\* matrix[row][column] = <<kernel 0, kernel 1>>
matrix ==
  << << <<7, 7>>,    <<52, 37>>,      <<370, 0>>,   <<52, -37>>,      <<7, -7>>   >>,
     << <<37, 52>>,  <<1187, 1187>>,  <<2589, 0>>,  <<1187, -1187>>,  <<37, -52>> >>,
     << <<0, 370>>,  <<0, 2589>>,     <<0, 0>>,     <<0, -2589>>,     <<0, -370>> >>,
     << <<-37, 52>>, <<-1187, 1187>>, <<-2589, 0>>, <<-1187, -1187>>, <<-37, -52>> >>,
     << <<-7, 7>>,   <<-52, 37>>,     <<-370, 0>>,  <<-52, -37>>,     <<-7, -7>>  >> >>

KernelUnit == 10000

num_kernels == 2

PadSize == 2

\* tf.pad(..., mode='REFLECT'): the source position (1-based) of position
\* p (1-based) of the padded axis, for an axis of extent n >= PadSize + 1
Reflect(p, n) ==
  LET q == p - PadSize
  IN IF q < 1 THEN 2 - q ELSE IF q > n THEN 2 * n - q ELSE q

\* one tap of the convolution: the padded pixel under tap t of the window
\* at output position i, times the kernel coefficient for output channel i[4]
\* (output channel c * 2 + k is kernel k over input channel c)
Tap(image, i, t) ==
  RMul(image.at[<<i[1],
                  Reflect(i[2] + t[1], image.shape[2]),
                  Reflect(i[3] + t[2], image.shape[3]),
                  ((i[4] - 1) \div num_kernels) + 1>>],
       Rat(matrix[t[1] + 1][t[2] + 1][((i[4] - 1) % num_kernels) + 1], KernelUnit))

KernelSize == 5

\* the products under the window at output position i, by tap
Window(image, i) ==
  Tensor(<<KernelSize, KernelSize>>, LAMBDA t : Tap(image, i, <<t[1] - 1, t[2] - 1>>))

\* GMSDLoss._scharr_edges(image, True): reflect-pad by 2, then depthwise
\* convolution with the kernel bank
scharr_edges(image) ==
  Tensor([image.shape EXCEPT ![4] = image.shape[4] * num_kernels],
         LAMBDA i : Reduce("sum", Window(image, i), <<>>, {1, 2}, FALSE))

ephsilon == <<1, 400>>

\* the gms field of GMSDLoss.call
gms(y_true, y_pred) ==
  LET true_edge == scharr_edges(y_true)
      pred_edge == scharr_edges(y_pred)
      upper     == TScale(TMul(true_edge, pred_edge), Int2R(2))
      lower     == TAdd(TMul(true_edge, true_edge), TMul(pred_edge, pred_edge))
  IN TDiv(TAddScalar(upper, ephsilon), TAddScalar(lower, ephsilon))

\* GMSDLoss.call
GMSDLoss_call(y_true, y_pred) ==
  LET gmsd == Std(gms(y_true, y_pred), {2, 3, 4}, TRUE)
  IN SqueezeLast(gmsd)

(***************************************************************************)
(* LossWrapper                                                             *)
(***************************************************************************)
\* y_true[..., k] kept as a trailing axis of extent 1 (K.expand_dims of the
\* indexed channel); a negative k counts from the end
ChannelOf(t, k) ==
  IF k < 0 THEN Slice(t, 3, t.shape[4] + k, t.shape[4] + k + 1)
  ELSE Slice(t, 3, k, k + 1)

\* _apply_mask taking channels 1..3 of y_true when there is no mask
apply_mask_shifted(y_true, y_pred, mask_channel, mask_prop) ==
  IF mask_channel = -1
    THEN <<Slice(y_true, 3, 1, 4), SliceTo(y_pred, 3, 3)>>
    ELSE LET mask == TAddScalar(TScale(ChannelOf(y_true, mask_channel), mask_prop),
                                RSub(One, mask_prop))
         IN <<Concatenate(<<TMul(Slice(y_true, 3, 0, 1), mask),
                            TMul(Slice(y_true, 3, 1, 2), mask),
                            TMul(Slice(y_true, 3, 2, 3), mask)>>, 3),
              Concatenate(<<TMul(Slice(y_pred, 3, 0, 1), mask),
                            TMul(Slice(y_pred, 3, 1, 2), mask),
                            TMul(Slice(y_pred, 3, 2, 3), mask)>>, 3)>>

\* _apply_mask masking the ground truth only
apply_mask_true_only(y_true, y_pred, mask_channel, mask_prop) ==
  IF mask_channel = -1
    THEN <<SliceTo(y_true, 3, 3), SliceTo(y_pred, 3, 3)>>
    ELSE LET mask == TAddScalar(TScale(ChannelOf(y_true, mask_channel), mask_prop),
                                RSub(One, mask_prop))
         IN <<Concatenate(<<TMul(Slice(y_true, 3, 0, 1), mask),
                            TMul(Slice(y_true, 3, 1, 2), mask),
                            TMul(Slice(y_true, 3, 2, 3), mask)>>, 3),
              SliceTo(y_pred, 3, 3)>>

\* LossWrapper._apply_mask(y_true, y_pred, mask_channel, mask_prop)
apply_mask(y_true, y_pred, mask_channel, mask_prop) ==
  IF mask_channel = -1
    THEN <<SliceTo(y_true, 3, 3), SliceTo(y_pred, 3, 3)>>
    ELSE LET mask0 == ChannelOf(y_true, mask_channel)
             mask_as_k_inv_prop == RSub(One, mask_prop)
             mask == TAddScalar(TScale(mask0, mask_prop), mask_as_k_inv_prop)
             n_true == Concatenate(<<TMul(Slice(y_true, 3, 0, 1), mask),
                                     TMul(Slice(y_true, 3, 1, 2), mask),
                                     TMul(Slice(y_true, 3, 2, 3), mask)>>, 3)
             n_pred == Concatenate(<<TMul(Slice(y_pred, 3, 0, 1), mask),
                                     TMul(Slice(y_pred, 3, 1, 2), mask),
                                     TMul(Slice(y_pred, 3, 2, 3), mask)>>, 3)
         IN <<n_true, n_pred>>

\* default of the mask_prop parameter
DefaultMaskProp == <<1, 1>>

\* the loss objects the model registers: LInfNorm() and GeneralizedLoss
\* with an alpha and beta for which the power is rational
LInfFn == [name |-> "l_inf_norm_loss", alpha |-> Zero, beta |-> Zero]

GenFn == [name |-> "generalized_loss", alpha |-> <<4, 1>>, beta |-> One]

\* function.call(y_true, y_pred)
LossCall(function, y_true, y_pred) ==
  IF function.name = "l_inf_norm_loss" THEN LInfNorm_call(y_true, y_pred)
  ELSE GeneralizedLoss_call(function.alpha, function.beta, y_true, y_pred)

\* func(n_true, n_pred) for func = compile_utils.LossesContainer(function):
\* the loss, reduced to a number by the loss object's default reduction
LossesContainer(function, y_true, y_pred) == ReduceAuto(LossCall(function, y_true, y_pred))

(***************************************************************************)
(* State.  The three registration lists of a LossWrapper, the frames of    *)
(* the callers evaluating it, and the evaluations of MSSSIMLoss, of the    *)
(* gradient engine and of the metrics on their own.                        *)
(***************************************************************************)
\* loss_functions, loss_weights, mask_channels: the three lists of the wrapper;
\* adding: the frame of each thread that calls add_loss; registered: the
\* arguments of the add_loss calls made so far, in call order; overlapped:
\* two add_loss calls have run at the same time; frames: the frame of each
\* thread that calls the wrapper
VARIABLES loss_functions, loss_weights, mask_channels, adding, registered, overlapped,
          frames, msssim, grad, metric

vars == <<loss_functions, loss_weights, mask_channels, adding, registered, overlapped,
          frames, msssim, grad, metric>>

\* most registrations a wrapper receives
MaxRegs == 2

Callers == {"a", "b"}

\* the threads that call add_loss
Registrars == {"r", "s"}

NoTensor == [shape |-> <<0>>, at |-> <<>>]

\* value of a frame's ret before __call__ has returned
NotReturned == <<0, -1>>

\* an image (batch of one, one row) from its pixels, each a channel list
Image(pixels) ==
  Tensor(<<1, 1, Len(pixels), Len(pixels[1])>>, LAMBDA i : pixels[i[3]][i[4]])

\* y_true samples: 3 colour channels, then mask channels 3 and 4
TrueAX == Image(<< <<Int2R(1), Int2R(2), Int2R(0), One, Zero>>,
                   <<Int2R(2), Int2R(0), Int2R(1), One, Zero>> >>)

TrueAY == Image(<< <<Int2R(1), Int2R(2), Int2R(0), One, Half>>,
                   <<Int2R(2), Int2R(0), Int2R(1), Zero, One>> >>)

\* y_pred samples: 3 colour channels
PredP == Image(<< <<Int2R(0), Int2R(2), Int2R(1)>>, <<Int2R(1), Int2R(1), Int2R(1)>> >>)

PredQ == Image(<< <<Int2R(2), Int2R(2), Int2R(2)>>, <<Int2R(0), Int2R(3), Int2R(1)>> >>)

\* the (y_true, y_pred) pairs caller c passes: every caller has its own tensors
InputPairs(c) == IF c = "a" THEN {<<TrueAX, PredP>>} ELSE {<<TrueAY, PredQ>>}

\* the (function, weight, mask_channel) triples add_loss is called with
RegChoices ==
  { <<LInfFn, One, -1>>, <<GenFn, Int2R(2), 3>>, <<LInfFn, Half, 4>> }

\* a thread that registers is not inside add_loss
IdleAdding == [pc |-> "idle"]

IdleFrame ==
  [pc |-> "idle", y_true |-> NoTensor, y_pred |-> NoTensor, it |-> 0, loss |-> Zero,
   n_true |-> NoTensor, n_pred |-> NoTensor, calls |-> <<>>, ret |-> NotReturned]

IdleMsssim ==
  [pc |-> "idle", filter_size |-> 0, im_size |-> 0, n_power_factors |-> 0,
   size |-> 0, idx |-> 0, idx0 |-> 0, depth |-> 0, passed |-> 0]

IdleEval == [op |-> "none", img |-> NoTensor, pred |-> NoTensor, out |-> NoTensor]

IdleMetric ==
  [op |-> "none", y_true |-> NoTensor, y_pred |-> NoTensor, alpha |-> Zero, beta |-> Zero,
   status |-> "none", out |-> NoTensor]

\* LossWrapper.__init__
WrapperInit ==
  /\ loss_functions = <<>>
  /\ loss_weights = <<>>
  /\ mask_channels = <<>>
  /\ adding = [t \in Registrars |-> IdleAdding]
  /\ registered = <<>>
  /\ overlapped = FALSE
  /\ frames = [c \in Callers |-> IdleFrame]
  /\ msssim = IdleMsssim
  /\ grad = IdleEval
  /\ metric = IdleMetric

\* add_loss refusing a registration while an evaluation is under way
add_loss_sealed(t, function, weight, mask_channel) ==
  /\ adding[t].pc = "idle"
  /\ Len(loss_functions) < MaxRegs
  /\ \A c \in Callers : frames[c].pc = "idle"
  /\ loss_functions' = Append(loss_functions, function)
  /\ adding' = [adding EXCEPT ![t] =
       [pc |-> "weights", function |-> function, weight |-> weight,
        mask_channel |-> mask_channel]]
  /\ registered' = Append(registered, <<function, weight, mask_channel>>)
  /\ overlapped' = (overlapped \/ \E u \in Registrars : adding[u].pc # "idle")
  /\ UNCHANGED <<loss_weights, mask_channels, frames, msssim, grad, metric>>

\* LossWrapper.add_loss(function, weight, mask_channel) called by thread t, up
\* to its first statement: self._loss_functions.append(...).  The three
\* appends are three statements and nothing locks the lists: the other
\* threads, another add_loss among them, run between the statements.
add_loss(t, function, weight, mask_channel) ==
  /\ adding[t].pc = "idle"
  /\ Len(loss_functions) < MaxRegs
  /\ loss_functions' = Append(loss_functions, function)
  /\ adding' = [adding EXCEPT ![t] =
       [pc |-> "weights", function |-> function, weight |-> weight,
        mask_channel |-> mask_channel]]
  /\ registered' = Append(registered, <<function, weight, mask_channel>>)
  /\ overlapped' = (overlapped \/ \E u \in Registrars : adding[u].pc # "idle")
  /\ UNCHANGED <<loss_weights, mask_channels, frames, msssim, grad, metric>>

\* add_loss in thread t: self._loss_weights.append(weight)
add_loss_weights(t) ==
  /\ adding[t].pc = "weights"
  /\ loss_weights' = Append(loss_weights, adding[t].weight)
  /\ adding' = [adding EXCEPT ![t].pc = "mask_channels"]
  /\ UNCHANGED <<loss_functions, mask_channels, registered, overlapped, frames, msssim,
                 grad, metric>>

\* add_loss in thread t: self._mask_channels.append(mask_channel), and its
\* return
add_loss_mask_channels(t) ==
  /\ adding[t].pc = "mask_channels"
  /\ mask_channels' = Append(mask_channels, adding[t].mask_channel)
  /\ adding' = [adding EXCEPT ![t] = IdleAdding]
  /\ UNCHANGED <<loss_functions, loss_weights, registered, overlapped, frames, msssim,
                 grad, metric>>

\* number of items zip() over the three lists still yields in total
ZipLen == IMin(Len(loss_functions), IMin(Len(loss_weights), Len(mask_channels)))

\* the zip pairing every function with the first weight
ZipCrossed(k) == <<loss_functions[k], loss_weights[1], mask_channels[k]>>

\* the k-th item of zip(self._loss_functions, self._loss_weights, self._mask_channels)
Zip(k) == <<loss_functions[k], loss_weights[k], mask_channels[k]>>

\* __call__ starting its running total at 1
call_enter_one(c, y_true, y_pred) ==
  /\ frames[c].pc = "idle"
  /\ frames' = [frames EXCEPT ![c] =
       [IdleFrame EXCEPT !.pc = "loop", !.y_true = y_true, !.y_pred = y_pred,
                         !.it = 0, !.loss = One]]
  /\ UNCHANGED <<loss_functions, loss_weights, mask_channels, adding, registered, overlapped, msssim, grad, metric>>

\* LossWrapper.__call__(y_true, y_pred) entered by caller c: loss = 0.0
call_enter(c, y_true, y_pred) ==
  /\ frames[c].pc = "idle"
  /\ frames' = [frames EXCEPT ![c] =
       [IdleFrame EXCEPT !.pc = "loop", !.y_true = y_true, !.y_pred = y_pred,
                         !.it = 0, !.loss = Zero]]
  /\ UNCHANGED <<loss_functions, loss_weights, mask_channels, adding, registered, overlapped, msssim, grad, metric>>

\* the frame after one pass of the loop body on the zip item
LoopBody(f, item) ==
  LET masked == apply_mask(f.y_true, f.y_pred, item[3], DefaultMaskProp)
  IN [f EXCEPT !.it = f.it + 1,
               !.n_true = masked[1],
               !.n_pred = masked[2],
               !.loss = RAdd(f.loss, RMul(LossesContainer(item[1], masked[1], masked[2]),
                                          item[2])),
               !.calls = Append(f.calls, item)]

\* the loop body keeping its running total on the wrapper: every caller in
\* the loop sees the total of the one that ran last
call_iterate_shared(c) ==
  /\ frames[c].pc = "loop"
  /\ frames[c].it < ZipLen
  /\ frames' = [d \in Callers |->
       IF d = c THEN LoopBody(frames[c], Zip(frames[c].it + 1))
       ELSE IF frames[d].pc = "loop"
         THEN [frames[d] EXCEPT !.loss = LoopBody(frames[c], Zip(frames[c].it + 1)).loss]
         ELSE frames[d]]
  /\ UNCHANGED <<loss_functions, loss_weights, mask_channels, adding, registered, overlapped, msssim, grad, metric>>

\* one iteration of the for loop of __call__ in caller c
call_iterate(c) ==
  /\ frames[c].pc = "loop"
  /\ frames[c].it < ZipLen
  /\ frames' = [frames EXCEPT ![c] = LoopBody(frames[c], Zip(frames[c].it + 1))]
  /\ UNCHANGED <<loss_functions, loss_weights, mask_channels, adding, registered, overlapped, msssim, grad, metric>>

\* the zip is exhausted: return loss
call_return(c) ==
  /\ frames[c].pc = "loop"
  /\ frames[c].it >= ZipLen
  /\ frames' = [frames EXCEPT ![c] = [frames[c] EXCEPT !.pc = "done", !.ret = frames[c].loss]]
  /\ UNCHANGED <<loss_functions, loss_weights, mask_channels, adding, registered, overlapped, msssim, grad, metric>>

\* the caller takes the returned loss; its frame is gone
call_exit(c) ==
  /\ frames[c].pc = "done"
  /\ frames' = [frames EXCEPT ![c] = IdleFrame]
  /\ UNCHANGED <<loss_functions, loss_weights, mask_channels, adding, registered, overlapped, msssim, grad, metric>>

WrapperNext ==
  \/ \E t \in Registrars : \E r \in RegChoices : add_loss(t, r[1], r[2], r[3])
  \/ \E t \in Registrars : add_loss_weights(t)
  \/ \E t \in Registrars : add_loss_mask_channels(t)
  \/ \E c \in Callers : \E p \in InputPairs(c) : call_enter(c, p[1], p[2])
  \/ \E c \in Callers : call_iterate(c)
  \/ \E c \in Callers : call_return(c)
  \/ \E c \in Callers : call_exit(c)

SpecWrapper == WrapperInit /\ [][WrapperNext]_vars

(***************************************************************************)
(* Properties of LossWrapper                                               *)
(***************************************************************************)
\* the registrations in the lists: the entries of the three lists index by
\* index, up to the length of the list of mask channels, the shortest (every
\* add_loss call appends to it last)
Registrations ==
  [k \in 1..Len(mask_channels) |-> <<loss_functions[k], loss_weights[k], mask_channels[k]>>]

\* metric(masked_true, masked_pred) * weight for one registration
Term(reg, y_true, y_pred) ==
  RMul(LossesContainer(reg[1],
                       apply_mask(y_true, y_pred, reg[3], DefaultMaskProp)[1],
                       apply_mask(y_true, y_pred, reg[3], DefaultMaskProp)[2]),
       reg[2])

\* the sum of f over the set S
RECURSIVE SumOver(_, _)
SumOver(S, f) ==
  IF S = {} THEN Zero
  ELSE LET i == CHOOSE j \in S : TRUE IN RAdd(f[i], SumOver(S \ {i}, f))

WeightedSum(regs, y_true, y_pred) ==
  SumOver(DOMAIN regs, [k \in DOMAIN regs |-> Term(regs[k], y_true, y_pred)])

Returns(c) == frames[c].pc = "loop" /\ frames'[c].pc = "done"

\* C1: when __call__ returns, it has invoked the registrations one by one in
\* insertion order, each once and with its own function, weight and mask
\* channel, and it returns the sum of metric(masked_true, masked_pred) * weight
\* over the registrations; for registrations made in sequence (no two
\* add_loss calls at the same time) these are the triples add_loss was called
\* with, those whose call has returned, in call order
C1_WeightedSumInOrder ==
  [][\A c \in Callers :
       Returns(c) =>
         /\ frames'[c].calls = Registrations
         /\ frames'[c].ret = WeightedSum(Registrations, frames[c].y_true, frames[c].y_pred)
         /\ ~overlapped => Registrations = SubSeq(registered, 1, Len(mask_channels))]_vars

\* an evaluation over two registrations that differ in weight and in mask
\* channel has returned a non-zero loss
C1_Witness ==
  \E c \in Callers :
    /\ frames[c].pc = "done"
    /\ Len(frames[c].calls) = 2
    /\ frames[c].calls[1][2] # frames[c].calls[2][2]
    /\ frames[c].calls[1][3] # frames[c].calls[2][3]
    /\ IsFinite(frames[c].ret) /\ frames[c].ret # Zero

\* channels 0..2 of t, element by element
First3(t) ==
  [shape |-> <<t.shape[1], t.shape[2], t.shape[3], 3>>,
   at |-> [i \in (1..t.shape[1]) \X (1..t.shape[2]) \X (1..t.shape[3]) \X (1..3) |-> t.at[i]]]

\* the y_true samples the evaluations are run on
TrueSamples == {TrueAX, TrueAY}

SingleUnmasked(c) ==
  /\ frames[c].pc = "done"
  /\ Len(frames[c].calls) = 1
  /\ frames[c].calls[1][3] = -1
  /\ frames[c].y_true.shape[4] > 3

\* C2: with a single registration whose mask_channel is -1 and a y_true of
\* more than 3 channels, the metric receives channels 0..2 of y_true and of
\* y_pred unmodified, the result is the metric's result on them (times the
\* registered weight), and a y_true that differs only in channels 3 and above
\* gives the same masked pair
C2_UnmaskedIgnoresExtraChannels ==
  \A c \in Callers :
    SingleUnmasked(c) =>
      /\ frames[c].n_true = First3(frames[c].y_true)
      /\ frames[c].n_pred = First3(frames[c].y_pred)
      /\ frames[c].ret =
           RMul(LossesContainer(frames[c].calls[1][1],
                                First3(frames[c].y_true), First3(frames[c].y_pred)),
                frames[c].calls[1][2])
      /\ \A t \in TrueSamples :
           First3(t) = First3(frames[c].y_true) =>
             apply_mask(t, frames[c].y_pred, -1, DefaultMaskProp)
               = <<frames[c].n_true, frames[c].n_pred>>

\* a single unmasked registration of weight 1 was evaluated on a 5-channel
\* y_true, another sample has the same colours and other masks, and the
\* loss is not zero
C2_Witness ==
  \E c \in Callers :
    /\ SingleUnmasked(c)
    /\ frames[c].calls[1][2] = One
    /\ frames[c].y_true.shape[4] = 5
    /\ \E t \in TrueSamples : t # frames[c].y_true /\ First3(t) = First3(frames[c].y_true)
    /\ IsFinite(frames[c].ret) /\ frames[c].ret # Zero

\* the mask channel of the last metric invocation of caller c
LastChannel(c) == frames[c].calls[Len(frames[c].calls)][3]

Masked(c) == frames[c].calls # <<>> /\ LastChannel(c) # -1

\* the value of mask channel ch of y_true at the pixel of index i
MaskAt(y_true, i, ch) == y_true.at[<<i[1], i[2], i[3], ch + 1>>]

Pixels(t) == (1..t.shape[1]) \X (1..t.shape[2]) \X (1..t.shape[3]) \X (1..3)

\* C3: with mask_channel = c # -1 every pixel of channels 0..2 of y_true and
\* of y_pred is multiplied by channel c of y_true at that pixel and the
\* result has 3 channels; an all-one mask gives the unmasked pair, an
\* all-zero mask gives two all-zero tensors
C3_MaskMultipliesBoth ==
  \A c \in Callers :
    Masked(c) =>
      LET f == frames[c] IN
      /\ f.n_true.shape = <<f.y_true.shape[1], f.y_true.shape[2], f.y_true.shape[3], 3>>
      /\ f.n_pred.shape = f.n_true.shape
      /\ \A i \in Pixels(f.y_true) :
           /\ f.n_true.at[i] = RMul(f.y_true.at[i], MaskAt(f.y_true, i, LastChannel(c)))
           /\ f.n_pred.at[i] = RMul(f.y_pred.at[i], MaskAt(f.y_true, i, LastChannel(c)))
      /\ (\A i \in Pixels(f.y_true) : MaskAt(f.y_true, i, LastChannel(c)) = One)
           => <<f.n_true, f.n_pred>> = <<First3(f.y_true), First3(f.y_pred)>>
      /\ (\A i \in Pixels(f.y_true) : MaskAt(f.y_true, i, LastChannel(c)) = Zero)
           => /\ f.n_true = f.n_pred
              /\ \A i \in Pixels(f.y_true) : f.n_true.at[i] = Zero

\* one caller has just masked with an all-one channel, the other with a
\* channel holding 1/2 that changed the prediction
C3_Witness ==
  \E c, d \in Callers :
    /\ Masked(c) /\ Masked(d)
    /\ \A i \in Pixels(frames[c].y_true) : MaskAt(frames[c].y_true, i, LastChannel(c)) = One
    /\ \E i \in Pixels(frames[d].y_true) : MaskAt(frames[d].y_true, i, LastChannel(d)) = Half
    /\ frames[d].n_pred # First3(frames[d].y_pred)
    /\ frames[d].n_pred # frames[d].n_true

\* C4: a wrapper on which add_loss was never called returns 0 for any input
\* pair and invokes no metric
C4_NoRegistrationsReturnZero ==
  \A c \in Callers :
    (frames[c].pc = "done" /\ Len(loss_functions) = 0) =>
      (frames[c].ret = Zero /\ frames[c].calls = <<>>)

\* every caller has returned from an evaluation of the empty wrapper, on
\* different inputs
C4_Witness ==
  /\ Len(loss_functions) = 0
  /\ \A c \in Callers : frames[c].pc = "done"
  /\ \E c, d \in Callers : frames[c].y_true # frames[d].y_true

\* the loss a caller running alone returns from frame f for the lists as
\* they are
RECURSIVE RunAlone(_)
RunAlone(f) == IF f.it < ZipLen THEN RunAlone(LoopBody(f, Zip(f.it + 1))) ELSE f.loss

FreshFrame(y_true, y_pred) ==
  [IdleFrame EXCEPT !.pc = "loop", !.y_true = y_true, !.y_pred = y_pred]

\* C5: no step of an evaluation changes the registered functions, weights or
\* mask channels, and however the callers' steps interleave every call
\* returns what a call running alone on the same tensors returns
C5_NoCrossCallState ==
  [][/\ frames' # frames =>
          UNCHANGED <<loss_functions, loss_weights, mask_channels>>
     /\ \A c \in Callers :
          Returns(c) =>
            frames'[c].ret = RunAlone(FreshFrame(frames[c].y_true, frames[c].y_pred))]_vars

\* one caller has returned a non-zero loss over two registrations while the
\* other, on other tensors, is in the middle of its loop
C5_Witness ==
  \E c, d \in Callers :
    /\ frames[c].pc = "done" /\ Len(frames[c].calls) = 2 /\ frames[c].ret # Zero
    /\ frames[d].pc = "loop" /\ frames[d].it = 1
    /\ frames[d].y_true # frames[c].y_true

\* the three registration lists have the same length
SameLength ==
  Len(loss_functions) = Len(loss_weights) /\ Len(loss_weights) = Len(mask_channels)

\* this step changes a registration list
ListsChange ==
  \/ loss_functions' # loss_functions
  \/ loss_weights' # loss_weights
  \/ mask_channels' # mask_channels

\* list is old with one entry appended
Appended(old, list) == Len(list) = Len(old) + 1 /\ SubSeq(list, 1, Len(old)) = old

\* thread t is inside add_loss
UnderWay(t) == adding[t].pc # "idle"

\* the number of threads inside add_loss at one of the statements pcs
AddingAt(pcs) == Cardinality({t \in Registrars : adding[t].pc \in pcs})

\* the number of add_loss calls that have returned
Returned == Len(registered) - AddingAt({"weights", "mask_channels"})

\* the arguments thread t called add_loss with
Args(t) == <<adding[t].function, adding[t].weight, adding[t].mask_channel>>

\* the add_loss call of thread t returns in this step
AddLossReturns(t) == adding[t].pc = "mask_channels" /\ adding'[t].pc = "idle"

\* add_loss is accepted from every thread that is not inside it, for every
\* function, weight and mask channel (below the model's bound on registrations)
AlwaysAccepted ==
  \A t \in Registrars :
    (adding[t].pc = "idle" /\ Len(loss_functions) < MaxRegs) =>
      \A r \in RegChoices : ENABLED add_loss(t, r[1], r[2], r[3])

\* C13 as stated: add_loss is accepted in every state, also while and after
\* the wrapper is evaluated, for every function, weight and mask channel; the
\* lists change only by an entry appended; and whenever an add_loss call
\* returns, the three lists have equal length, the number of add_loss calls
\* that have returned, and an evaluation of the lists as they then are
\* includes the registration of that call, as its last item
C13_AddLossAlwaysAccepted ==
  [][/\ AlwaysAccepted
     /\ ListsChange =>
          /\ loss_functions' = loss_functions \/ Appended(loss_functions, loss_functions')
          /\ loss_weights' = loss_weights \/ Appended(loss_weights, loss_weights')
          /\ mask_channels' = mask_channels \/ Appended(mask_channels, mask_channels')
     /\ \A t \in Registrars :
          AddLossReturns(t) =>
            /\ SameLength'
            /\ Len(mask_channels') = Returned'
            /\ Zip(ZipLen)' = Args(t)]_vars

\* the length of each list is the number of add_loss calls that have
\* executed its append, and the functions are in call order
LengthsByStatement ==
  /\ Len(loss_functions) = Returned + AddingAt({"weights", "mask_channels"})
  /\ Len(loss_weights) = Returned + AddingAt({"mask_channels"})
  /\ Len(mask_channels) = Returned
  /\ loss_functions = [k \in 1..Len(registered) |-> registered[k][1]]

\* as long as no two add_loss calls have run at the same time, the lists hold
\* at each index the function, the weight and the mask channel of one call
PairedInSequence ==
  ~overlapped =>
    /\ AddingAt({"weights", "mask_channels"}) <= 1
    /\ loss_weights = [k \in 1..Len(loss_weights) |-> registered[k][2]]
    /\ mask_channels = [k \in 1..Len(mask_channels) |-> registered[k][3]]

\* C13, amended: add_loss is accepted in every state, also while the wrapper
\* is evaluated and while another add_loss call is under way, for every
\* function, weight and mask channel (below the model's bound on
\* registrations), and once entered it is never held back; each call appends
\* its function, its weight and its mask channel to the end of their lists in
\* three steps, in this order, and no step changes an earlier entry; the
\* length of each list is the number of calls that have executed its append,
\* so the lists have equal length, the number of calls, whenever no call is
\* under way; as long as no two calls have run at the same time, each index
\* holds the triple of one call, in call order; and an evaluation returns
\* after it has called, index by index, the entries of the three lists up to
\* the length of the shortest, the list of mask channels
C13_AppendsInThreeSteps ==
  [][/\ LengthsByStatement /\ LengthsByStatement'
     /\ PairedInSequence /\ PairedInSequence'
     /\ AlwaysAccepted
     /\ \A t \in Registrars :
          /\ adding[t].pc = "weights" => ENABLED add_loss_weights(t)
          /\ adding[t].pc = "mask_channels" => ENABLED add_loss_mask_channels(t)
          /\ (UnderWay(t) /\ adding'[t].pc # "idle") => Args(t)' = Args(t)
     /\ ListsChange =>
          \E t \in Registrars :
            \/ /\ adding[t].pc = "idle" /\ adding'[t].pc = "weights"
               /\ loss_functions' = Append(loss_functions, adding'[t].function)
               /\ registered' = Append(registered, Args(t)')
               /\ UNCHANGED <<loss_weights, mask_channels>>
            \/ /\ adding[t].pc = "weights" /\ adding'[t].pc = "mask_channels"
               /\ loss_weights' = Append(loss_weights, adding[t].weight)
               /\ UNCHANGED <<loss_functions, mask_channels, registered>>
            \/ /\ AddLossReturns(t)
               /\ mask_channels' = Append(mask_channels, adding[t].mask_channel)
               /\ UNCHANGED <<loss_functions, loss_weights, registered>>
     /\ \A c \in Callers :
          Returns(c) =>
            /\ Len(frames'[c].calls) = Len(mask_channels)
            /\ \A k \in 1..Len(mask_channels) : frames'[c].calls[k] = Zip(k)]_vars

\* two add_loss calls have run at the same time: the first has still to
\* append its mask channel, the second has returned, the lists have the
\* lengths 2, 2 and 1, and an evaluation has returned a loss having called
\* the first function with the first weight and the mask channel of the
\* second call, a triple that no call registered
C13_Witness ==
  \E c \in Callers : \E t \in Registrars :
    /\ overlapped
    /\ adding[t].pc = "mask_channels"
    /\ Len(loss_functions) = 2 /\ Len(loss_weights) = 2 /\ Len(mask_channels) = 1
    /\ Returned = 1
    /\ frames[c].pc = "done" /\ Len(frames[c].calls) = 1
    /\ frames[c].calls[1] = <<adding[t].function, adding[t].weight, mask_channels[1]>>
    /\ frames[c].calls[1] \notin RegChoices
    /\ frames[c].calls[1] # registered[1]
    /\ IsFinite(frames[c].ret) /\ frames[c].ret # Zero

(***************************************************************************)
(* MSSSIMLoss: the filter size handed to the multiscale primitive.  The    *)
(* recursion of _get_smallest_size is run one call at a time; msssim.depth *)
(* counts the calls below the first.                                       *)
(***************************************************************************)
\* most power factors a loss is configured with
MaxPowerFactors == 5

FilterSizes == {1, 2, 3, 4, 11}

ImSizes == {1, 2, 7, 32, 33, 64}

\* idx values _get_smallest_size is called with on its own
DirectIdx == {-2, -1, 0, 1, 3}

MsssimInit ==
  /\ \E fs \in FilterSizes : \E im \in ImSizes : \E n \in 0..MaxPowerFactors :
       msssim = [IdleMsssim EXCEPT !.pc = "start", !.filter_size = fs, !.im_size = im,
                                   !.n_power_factors = n]
  /\ loss_functions = <<>>
  /\ loss_weights = <<>>
  /\ mask_channels = <<>>
  /\ adding = [t \in Registrars |-> IdleAdding]
  /\ registered = <<>>
  /\ overlapped = FALSE
  /\ frames = [c \in Callers |-> IdleFrame]
  /\ grad = IdleEval
  /\ metric = IdleMetric

\* MSSSIMLoss.call up to its call of _get_smallest_size
MSSSIMLoss_call_enter ==
  /\ msssim.pc = "start"
  /\ msssim' = [msssim EXCEPT !.pc = "call", !.size = msssim.im_size,
                              !.idx = msssim.n_power_factors - 1, !.idx0 = msssim.n_power_factors - 1,
                              !.depth = 0]
  /\ UNCHANGED <<loss_functions, loss_weights, mask_channels, adding, registered, overlapped, frames, grad, metric>>

\* _get_smallest_size(size, idx) called on its own
get_smallest_size_enter(idx) ==
  /\ msssim.pc = "start"
  /\ msssim' = [msssim EXCEPT !.pc = "direct", !.size = msssim.im_size,
                              !.idx = idx, !.idx0 = idx, !.depth = 0]
  /\ UNCHANGED <<loss_functions, loss_weights, mask_channels, adding, registered, overlapped, frames, grad, metric>>

\* the recursion halving by rounding up
get_smallest_size_recurse_up ==
  /\ msssim.pc \in {"call", "direct"}
  /\ msssim.idx > 0
  /\ msssim' = [msssim EXCEPT !.size = (msssim.size + 1) \div 2, !.idx = msssim.idx - 1,
                              !.depth = msssim.depth + 1]
  /\ UNCHANGED <<loss_functions, loss_weights, mask_channels, adding, registered, overlapped, frames, grad, metric>>

\* idx > 0: the recursive call _get_smallest_size(size // 2, idx - 1)
get_smallest_size_recurse ==
  /\ msssim.pc \in {"call", "direct"}
  /\ msssim.idx > 0
  /\ msssim' = [msssim EXCEPT !.size = msssim.size \div 2, !.idx = msssim.idx - 1,
                              !.depth = msssim.depth + 1]
  /\ UNCHANGED <<loss_functions, loss_weights, mask_channels, adding, registered, overlapped, frames, grad, metric>>

\* not idx > 0: size is returned through every pending call; in
\* MSSSIMLoss.call it becomes smallest_scale and min(self.filter_size,
\* smallest_scale) is passed to tf.image.ssim_multiscale
get_smallest_size_return ==
  /\ msssim.pc \in {"call", "direct"}
  /\ ~(msssim.idx > 0)
  /\ msssim' = [msssim EXCEPT !.pc = IF msssim.pc = "call" THEN "ssim" ELSE "returned",
                              !.passed = IF msssim.pc = "call"
                                           THEN IMin(msssim.filter_size, msssim.size)
                                           ELSE msssim.passed]
  /\ UNCHANGED <<loss_functions, loss_weights, mask_channels, adding, registered, overlapped, frames, grad, metric>>

MsssimNext ==
  \/ MSSSIMLoss_call_enter
  \/ \E idx \in DirectIdx : get_smallest_size_enter(idx)
  \/ get_smallest_size_recurse
  \/ get_smallest_size_return

SpecMsssim == MsssimInit /\ [][MsssimNext]_vars

\* size halved (rounding down) k times, for k >= 0
Halved(size, k) == size \div (2 ^ k)

\* C6: the filter size passed on is min(filter_size, s) for s the image size
\* integer-halved len(power_factors) - 1 times (2 for size 32 and 5 power
\* factors, so a larger filter_size becomes 2); _get_smallest_size makes at
\* most idx recursive calls and returns size // 2^idx for idx >= 0
C6_FilterSizeClamp ==
  /\ msssim.pc = "ssim" =>
       /\ msssim.passed = IMin(msssim.filter_size,
                               Halved(msssim.im_size, IMax(msssim.n_power_factors - 1, 0)))
       /\ (msssim.im_size = 32 /\ msssim.n_power_factors = 5) =>
            msssim.passed = (IF msssim.filter_size > 2 THEN 2 ELSE msssim.filter_size)
  /\ msssim.pc = "returned" =>
       msssim.size = (IF msssim.idx0 >= 0 THEN Halved(msssim.im_size, msssim.idx0)
                      ELSE msssim.im_size)
  /\ msssim.pc \in {"call", "direct"} =>
       msssim.depth + IMax(msssim.idx, 0) = IMax(msssim.idx0, 0)

\* the call on an image of size 32 with 5 power factors and filter_size 11
\* has passed on 2 after 4 recursive calls
C6_Witness ==
  /\ msssim.pc = "ssim"
  /\ msssim.im_size = 32 /\ msssim.n_power_factors = 5 /\ msssim.filter_size = 11
  /\ msssim.depth = 4 /\ msssim.passed = 2

(***************************************************************************)
(* The gradient engine on its own: a derivative of one image.              *)
(***************************************************************************)
\* largest height and width of the images
MaxDim == 4

Patterns == {1, 2}

\* pixel of pattern p at row r, column c, channel ch; pattern 1 has the row
\* 0, 2, 4, 6 in channel 1 of its first row
PatternValue(p, r, c, ch) ==
  IF p = 1 THEN 2 * (c - 1) + 5 * (r - 1) * (r - 1) + (ch - 1) * c
  ELSE (c * c * r + 3 * r + ch) % 7

PatternImage(p, b, h, w, ch) ==
  Tensor(<<b, h, w, ch>>, LAMBDA i : Int2R(PatternValue(p, i[2] + i[1] - 1, i[3], i[4])))

GradImages == {PatternImage(p, 1, h, w, 2) : p \in Patterns, h \in 1..MaxDim, w \in 1..MaxDim}

GradInit ==
  /\ \E img \in GradImages : grad = [IdleEval EXCEPT !.img = img]
  /\ loss_functions = <<>>
  /\ loss_weights = <<>>
  /\ mask_channels = <<>>
  /\ adding = [t \in Registrars |-> IdleAdding]
  /\ registered = <<>>
  /\ overlapped = FALSE
  /\ frames = [c \in Callers |-> IdleFrame]
  /\ msssim = IdleMsssim
  /\ metric = IdleMetric

\* GradientLoss._diff_x(img) is computed
apply_diff_x ==
  /\ grad.op = "none"
  /\ grad' = [grad EXCEPT !.op = "_diff_x", !.out = diff_x(grad.img)]
  /\ UNCHANGED <<loss_functions, loss_weights, mask_channels, adding, registered, overlapped, frames, msssim, metric>>

\* GradientLoss._diff_y(img) is computed
apply_diff_y ==
  /\ grad.op = "none"
  /\ grad' = [grad EXCEPT !.op = "_diff_y", !.out = diff_y(grad.img)]
  /\ UNCHANGED <<loss_functions, loss_weights, mask_channels, adding, registered, overlapped, frames, msssim, metric>>

\* GradientLoss._diff_xx(img) is computed
apply_diff_xx ==
  /\ grad.op = "none"
  /\ grad' = [grad EXCEPT !.op = "_diff_xx", !.out = diff_xx(grad.img)]
  /\ UNCHANGED <<loss_functions, loss_weights, mask_channels, adding, registered, overlapped, frames, msssim, metric>>

\* GradientLoss._diff_yy(img) is computed
apply_diff_yy ==
  /\ grad.op = "none"
  /\ grad' = [grad EXCEPT !.op = "_diff_yy", !.out = diff_yy(grad.img)]
  /\ UNCHANGED <<loss_functions, loss_weights, mask_channels, adding, registered, overlapped, frames, msssim, metric>>

\* GradientLoss._diff_xy(img) is computed
apply_diff_xy ==
  /\ grad.op = "none"
  /\ grad' = [grad EXCEPT !.op = "_diff_xy", !.out = diff_xy(grad.img)]
  /\ UNCHANGED <<loss_functions, loss_weights, mask_channels, adding, registered, overlapped, frames, msssim, metric>>

\* GradientLoss().call(img, pred) for a second image pred of the same shape
apply_gradient_call ==
  /\ grad.op = "none"
  /\ \E pred \in GradImages :
       /\ pred.shape = grad.img.shape
       /\ grad' = [grad EXCEPT !.op = "call", !.pred = pred,
                               !.out = Scalar(GradientLoss_call(grad.img, pred))]
  /\ UNCHANGED <<loss_functions, loss_weights, mask_channels, adding, registered, overlapped, frames, msssim, metric>>

GradNext ==
  \/ apply_diff_x
  \/ apply_diff_y
  \/ apply_diff_xx
  \/ apply_diff_yy
  \/ apply_diff_xy
  \/ apply_gradient_call

SpecGradient == GradInit /\ [][GradNext]_vars

DiffOps == {"_diff_x", "_diff_y", "_diff_xx", "_diff_yy", "_diff_xy"}

Height(t) == t.shape[2]

Width(t) == t.shape[3]

\* the row 0, 2, 4, 6 is channel 1 of this image
RampRow == PatternImage(1, 1, 1, 4, 2)

\* C7: the field of _diff_x holds value[1] - value[0] at the first position
\* of its axis and value[n-1] - value[n-2] at the last, and so does _diff_y;
\* for the row 0, 2, 4, 6 the first element is 2
C7_OneSidedBoundary ==
  /\ (grad.op = "_diff_x" /\ Width(grad.img) >= 2) =>
       \A i \in Idx(grad.img.shape) :
         /\ i[3] = 1 =>
              grad.out.at[i] = RSub(grad.img.at[[i EXCEPT ![3] = 2]], grad.img.at[i])
         /\ i[3] = Width(grad.img) =>
              grad.out.at[i] = RSub(grad.img.at[i], grad.img.at[[i EXCEPT ![3] = i[3] - 1]])
  /\ (grad.op = "_diff_y" /\ Height(grad.img) >= 2) =>
       \A i \in Idx(grad.img.shape) :
         /\ i[2] = 1 =>
              grad.out.at[i] = RSub(grad.img.at[[i EXCEPT ![2] = 2]], grad.img.at[i])
         /\ i[2] = Height(grad.img) =>
              grad.out.at[i] = RSub(grad.img.at[i], grad.img.at[[i EXCEPT ![2] = i[2] - 1]])
  /\ (grad.op = "_diff_x" /\ grad.img = RampRow) => grad.out.at[<<1, 1, 1, 1>>] = Int2R(2)

\* C8: every derivative field has the height and width of its input, for
\* every input size from 1 up, and holds one entry for each position of the
\* input (the joined pieces neither drop nor repeat a position)
C8_SameSizeEveryInput ==
  grad.op \in DiffOps =>
    /\ Height(grad.out) = Height(grad.img)
    /\ Width(grad.out) = Width(grad.img)
    /\ DOMAIN grad.out.at = Idx(grad.img.shape)

\* the cross term of GradientLoss.call on the two images of the evaluation
XYTerm == generalized_loss(diff_xy(grad.img), diff_xy(grad.pred))

\* (g(dx) + g(dy) + g(dxx) + g(dyy)) / (tv_weight + tv2_weight)
FourTerms ==
  RDiv(RAdd(RAdd(generalized_loss(diff_x(grad.img), diff_x(grad.pred)),
                 generalized_loss(diff_y(grad.img), diff_y(grad.pred))),
            RAdd(generalized_loss(diff_xx(grad.img), diff_xx(grad.pred)),
                 generalized_loss(diff_yy(grad.img), diff_yy(grad.pred)))),
       RAdd(tv_weight, tv2_weight))

\* C12: the field _diff_xy returns is zero at every position, for every
\* image; the cross term of GradientLoss.call is therefore 0 and the loss is
\* the four other terms over tv_weight + tv2_weight
C12_CrossTermZero ==
  /\ grad.op = "_diff_xy" => \A i \in DOMAIN grad.out.at : grad.out.at[i] = Zero
  /\ grad.op = "call" => (XYTerm = Zero /\ grad.out = Scalar(FourTerms))

\* _diff_xy has run on an image of at least 3 by 3 that is not uniform and
\* has returned a field of the image's shape
C12_Witness ==
  /\ grad.op = "_diff_xy"
  /\ Height(grad.img) >= 3 /\ Width(grad.img) >= 3
  /\ grad.out.shape = grad.img.shape
  /\ DOMAIN grad.out.at = Idx(grad.img.shape)
  /\ \E i, j \in Idx(grad.img.shape) : grad.img.at[i] # grad.img.at[j]

(***************************************************************************)
(* The metrics on their own: one metric applied to one pair of images.     *)
(* tf.image.ssim and tf.image.ssim_multiscale are primitives of the        *)
(* framework; the model takes their result from SsimValues.                *)
(***************************************************************************)
\* <<batch, height, width>> of the sample images
MetricShapes == {<<1, 3, 3>>, <<2, 2, 2>>, <<1, 1, 2>>}

\* pattern 3 is the uniform image
MetricPatterns == {1, 2, 3}

MetricImage(p, shape) ==
  IF p = 3 THEN Tensor(<<shape[1], shape[2], shape[3], 3>>, LAMBDA i : One)
  ELSE PatternImage(p, shape[1], shape[2], shape[3], 3)

MetricPairs ==
  {<<MetricImage(p, sh), MetricImage(q, sh)>> :
     p \in MetricPatterns, q \in MetricPatterns, sh \in MetricShapes}

\* values of alpha and beta a GeneralizedLoss is constructed with
Alphas == {Zero, One, Int2R(2), Int2R(4), GradAlpha, <<-2, 1>>}

Betas == {One, DefaultBeta}

\* the similarity the primitive returns per sample: 1 for identical images
SsimValues(y_true, y_pred) ==
  IF y_true = y_pred THEN {One} ELSE {Zero, Half, <<-1, 2>>}

\* a result of one entry per batch element
PerSample(y_true, x) == Tensor(<<y_true.shape[1]>>, LAMBDA i : x)

MetricInit ==
  /\ \E p \in MetricPairs : metric = [IdleMetric EXCEPT !.y_true = p[1], !.y_pred = p[2]]
  /\ loss_functions = <<>>
  /\ loss_weights = <<>>
  /\ mask_channels = <<>>
  /\ adding = [t \in Registrars |-> IdleAdding]
  /\ registered = <<>>
  /\ overlapped = FALSE
  /\ frames = [c \in Callers |-> IdleFrame]
  /\ msssim = IdleMsssim
  /\ grad = IdleEval

\* GeneralizedLoss(alpha, beta).call(y_true, y_pred): __init__ stores alpha
\* and beta as given and call computes with them
apply_GeneralizedLoss(alpha, beta) ==
  /\ metric.status = "none"
  /\ metric' = [metric EXCEPT !.op = "generalized_loss", !.alpha = alpha, !.beta = beta,
                              !.status = "value",
                              !.out = GeneralizedLoss_call(alpha, beta, metric.y_true, metric.y_pred)]
  /\ UNCHANGED <<loss_functions, loss_weights, mask_channels, adding, registered, overlapped, frames, msssim, grad>>

\* LInfNorm().call(y_true, y_pred)
apply_LInfNorm ==
  /\ metric.status = "none"
  /\ metric' = [metric EXCEPT !.op = "l_inf_norm_loss", !.status = "value",
                              !.out = LInfNorm_call(metric.y_true, metric.y_pred)]
  /\ UNCHANGED <<loss_functions, loss_weights, mask_channels, adding, registered, overlapped, frames, msssim, grad>>

\* GradientLoss().call(y_true, y_pred)
apply_GradientLoss ==
  /\ metric.status = "none"
  /\ metric' = [metric EXCEPT !.op = "gradient_loss", !.status = "value",
                              !.out = Scalar(GradientLoss_call(metric.y_true, metric.y_pred))]
  /\ UNCHANGED <<loss_functions, loss_weights, mask_channels, adding, registered, overlapped, frames, msssim, grad>>

\* GMSDLoss().call(y_true, y_pred); tf.pad in REFLECT mode raises unless the
\* padded axes are longer than the padding
apply_GMSDLoss ==
  /\ metric.status = "none"
  /\ metric' =
       IF Height(metric.y_true) > PadSize /\ Width(metric.y_true) > PadSize
         THEN [metric EXCEPT !.op = "gmsd_loss", !.status = "value",
                             !.out = GMSDLoss_call(metric.y_true, metric.y_pred)]
         ELSE [metric EXCEPT !.op = "gmsd_loss", !.status = "error"]
  /\ UNCHANGED <<loss_functions, loss_weights, mask_channels, adding, registered, overlapped, frames, msssim, grad>>

\* DSSIMObjective().call(y_true, y_pred)
apply_DSSIMObjective ==
  /\ metric.status = "none"
  /\ \E x \in SsimValues(metric.y_true, metric.y_pred) :
       metric' = [metric EXCEPT !.op = "DSSIMObjective", !.status = "value",
                                !.out = DSSIMObjective_call(PerSample(metric.y_true, x))]
  /\ UNCHANGED <<loss_functions, loss_weights, mask_channels, adding, registered, overlapped, frames, msssim, grad>>

\* MSSSIMLoss().call(y_true, y_pred)
apply_MSSSIMLoss ==
  /\ metric.status = "none"
  /\ \E x \in SsimValues(metric.y_true, metric.y_pred) :
       metric' = [metric EXCEPT !.op = "SSIM_Multiscale_Loss", !.status = "value",
                                !.out = MSSSIMLoss_call(PerSample(metric.y_true, x))]
  /\ UNCHANGED <<loss_functions, loss_weights, mask_channels, adding, registered, overlapped, frames, msssim, grad>>

MetricNext ==
  \/ \E alpha \in Alphas : \E beta \in Betas : apply_GeneralizedLoss(alpha, beta)
  \/ apply_LInfNorm
  \/ apply_GradientLoss
  \/ apply_GMSDLoss
  \/ apply_DSSIMObjective
  \/ apply_MSSSIMLoss

SpecMetrics == MetricInit /\ [][MetricNext]_vars

\* the values of alpha that divide by zero in GeneralizedLoss.call
InvalidAlphas == {Zero, Int2R(2)}

AllEqual(t, x) == Idx(t.shape) # {} /\ \A i \in Idx(t.shape) : t.at[i] = x

\* C9: on identical inputs every metric returns 0 in every entry of its
\* result (GeneralizedLoss for the values of alpha its formula admits), and
\* the gms field of GMSDLoss is 1 everywhere
C9_IdenticalInputsGiveZero ==
  (/\ metric.status = "value"
   /\ metric.y_true = metric.y_pred
   /\ metric.op = "generalized_loss" => metric.alpha \notin InvalidAlphas) =>
    /\ AllEqual(metric.out, Zero)
    /\ metric.op = "gmsd_loss" => AllEqual(gms(metric.y_true, metric.y_pred), One)

\* GMSDLoss has run on the uniform image as both inputs
C9_Witness ==
  /\ metric.op = "gmsd_loss" /\ metric.status = "value"
  /\ metric.y_true = metric.y_pred
  /\ metric.y_true = MetricImage(3, <<1, 3, 3>>)
  /\ AllEqual(scharr_edges(metric.y_true), Zero)

\* C10: GeneralizedLoss with alpha exactly 0 or exactly 2 fails with a
\* configuration error and returns no loss value
C10_InvalidAlphaRejected ==
  (metric.op = "generalized_loss" /\ metric.alpha \in InvalidAlphas) =>
    (metric.status = "error" /\ metric.out = NoTensor)

\* |y_true - y_pred| at index i of the metric's inputs
AbsErr(i) == RAbs(RSub(metric.y_true.at[i], metric.y_pred.at[i]))

\* the absolute errors of sample b in channel ch, over height and width
SpatialErrs(b, ch) ==
  {AbsErr(<<b, h, w, ch>>) : h \in 1..Height(metric.y_true), w \in 1..Width(metric.y_true)}

\* the largest of them
SpatialMax(b, ch) ==
  CHOOSE m \in SpatialErrs(b, ch) : \A x \in SpatialErrs(b, ch) : RLess(m, x) = {FALSE}

\* the average of the per-channel maxima of sample b
ChannelMean(b) ==
  LET chs == 1..metric.y_true.shape[4]
  IN RDiv(SumOver(chs, [ch \in chs |-> SpatialMax(b, ch)]), Int2R(Cardinality(chs)))

\* C11 as stated: LInfNorm.call averages over the channels the per-channel
\* maximum over height and width of |y_true - y_pred|, and its result has one
\* entry per batch element and no other axis
C11_OneScalarPerSample ==
  (metric.op = "l_inf_norm_loss" /\ metric.status = "value") =>
    /\ metric.out.shape = <<metric.y_true.shape[1]>>
    /\ \A b \in 1..metric.y_true.shape[1] : metric.out.at[<<b>>] = ChannelMean(b)

\* C11, amended: the values are as stated, one per sample, and the result
\* keeps the height and width axes with extent 1 (keepdims=True), so its
\* shape is (batch, 1, 1); only the channel axis is removed
C11_OneValuePerSampleKeptAxes ==
  (metric.op = "l_inf_norm_loss" /\ metric.status = "value") =>
    /\ metric.out.shape = <<metric.y_true.shape[1], 1, 1>>
    /\ DOMAIN metric.out.at = {<<b, 1, 1>> : b \in 1..metric.y_true.shape[1]}
    /\ \A b \in 1..metric.y_true.shape[1] : metric.out.at[<<b, 1, 1>>] = ChannelMean(b)

\* LInfNorm has run on a batch of two samples whose channels differ in their
\* largest error and whose results differ
C11_Witness ==
  /\ metric.op = "l_inf_norm_loss" /\ metric.status = "value"
  /\ metric.y_true.shape[1] = 2
  /\ \E c1, c2 \in 1..metric.y_true.shape[4] : SpatialMax(1, c1) # SpatialMax(1, c2)
  /\ metric.out.at[<<1, 1, 1>>] # Zero
  /\ metric.out.at[<<1, 1, 1>>] # metric.out.at[<<2, 1, 1>>]

====
